---- MODULE Spec2Model ----
(***************************************************************************)
(* 4cget: the fetch / extract / download cycle of src/code/4cget.go.       *)
(*                                                                         *)
(* The main goroutine parses the command line, then loops: fetch the       *)
(* thread page, extract the links (findImages), start one downloadFile     *)
(* goroutine per link, wait on the WaitGroup, and either stop (single      *)
(* pass) or count down and repeat (monitor mode).  Every downloadFile      *)
(* goroutine is a small sequential program of its own; the goroutines of   *)
(* one cycle interleave freely with each other and with the dispatch loop. *)
(*                                                                         *)
(* A string that the program splits on "/" is represented by the sequence  *)
(* of its parts, so "//i.4cdn.org/g/1.jpg" is <<"", "", "i.4cdn.org", "g", *)
(* "1.jpg">>.  An unrecovered panic in any goroutine ends the process; the *)
(* panic and the end of the process are one step of the model.             *)
(*                                                                         *)
(* Within one run the server holds one page, and only the links named in   *)
(* Unreliable meet network or disk faults.                                 *)
(***************************************************************************)
EXTENDS Integers, Sequences, FiniteSets, TLC

VARIABLES
    args,             \* os.Args: [host, monitor]
    pc,               \* position of the main goroutine
    crash,            \* "none", or the panic that ended the process
    siteID,           \* main: siteID
    mainMonitorMode,  \* main: the local monitorMode (line 161)
    monitorMode,      \* the package-level monitorMode (line 28)
    secondsIteration, \* main: secondsIteration
    body,             \* the thread page as the server holds it (raw hrefs)
    links,            \* the result of findImages of the current cycle
    next,             \* index of the range loop over links (line 244)
    wg,               \* sync.WaitGroup counter
    files,            \* main: files
    i,                \* main: countdown variable i (line 255)
    disk,             \* the thread directory: file name -> state
    workers,          \* the downloadFile goroutines that exist
    cycle,            \* number of page fetches issued so far
    shown,            \* observation: countdown values printed since the join
    report,           \* observation: the number printed by the final report
    downloaded,       \* observation: "File downloaded" lines printed so far
    prevAll,          \* observation: every worker of the previous cycle downloaded
    folderCreated,    \* the os.MkdirAll calls of lines 234-235 have run
    old               \* a downloadFile goroutine of the versions with the .jpg default

vars == <<args, pc, crash, siteID, mainMonitorMode, monitorMode, secondsIteration,
          body, links, next, wg, files, i, disk, workers, cycle, shown,
          report, downloaded, prevAll, folderCreated, old>>

-----------------------------------------------------------------------------
(* Bounds of the model *)

\* longest page, counted in raw hrefs
MaxLinks == 3
\* page fetches per run in monitor mode (the loop itself never ends)
MaxCycles == 2
\* largest monitor interval given on the command line
MaxSeconds == 1

-----------------------------------------------------------------------------
(* Program constants *)

RetryAttempts == 10

\* resp == nil: no response (http.Get returned an error)
NilResp == 0

Statuses == {200, 404, 429, 500}

-----------------------------------------------------------------------------
(* Sites, pages and link extraction *)

\* siteInfoMap: site ID -> host of its URL
siteInfoMap == [x \in {"4chan", "twochen"} |->
                  IF x = "4chan" THEN "boards.4chan.org" ELSE "sturdychan.help"]

\* a matching that takes every host for 4chan's
MatchSiteAny(host) == "4chan"

\* the site whose host equals the host of the input URL, "" when there is none
MatchSite(host) ==
    IF \E s \in DOMAIN siteInfoMap : siteInfoMap[s] = host
    THEN CHOOSE s \in DOMAIN siteInfoMap : siteInfoMap[s] = host
    ELSE ""

\* a 4chan href as the regexp captures it: protocol-relative
Href4(board, name) == <<"", "", "i.4cdn.org", board, name>>
\* a twochen link as the regexp captures it: absolute
Href2(scheme, name) == <<scheme, "", "sturdychan.help", "assets", "images", "src", name>>

\* Every capture of the site's ImgRE over the whole thread, in page order.  The
\* thread repeats one href and holds two hrefs with the same last segment.
Thread(site) ==
    IF site = "4chan"
    THEN <<Href4("g", "1.jpg"), Href4("g", "1.jpg"), Href4("w", "1.jpg"),
           Href4("g", "2.png"), Href4("g", "3.gif")>>
    ELSE <<Href2("https:", "abc.png"), Href2("http:", "abc.png")>>

\* the links whose server and whose file operations are not reliable
Unreliable ==
    {<<"https:", "", "i.4cdn.org", "g", "1.jpg">>, Href2("https:", "abc.png")}

Min(a, b) == IF a < b THEN a ELSE b

\* the pages a run may be pointed at: the windows of the thread, at most MaxLinks long
Pages(site) ==
    {<<>>} \cup
    UNION {{SubSeq(Thread(site), lo, hi) : hi \in lo..Min(Len(Thread(site)), lo + MaxLinks - 1)} :
              lo \in 1..Len(Thread(site))}

\* strings.Replace(url, "//i.4cdn.org", "https://i.4cdn.org", 1) on a captured href
Replace4cdn(url) ==
    IF Len(url) >= 3 /\ url[1] = "" /\ url[2] = "" /\ url[3] = "i.4cdn.org"
    THEN [url EXCEPT ![1] = "https:"]
    ELSE url

InSeq(x, s) == \E k \in 1..Len(s) : s[k] = x

\* a unique that returns its input as it is
uniqueKeepsAll(input) == input

RECURSIVE uniqueFrom(_, _)
uniqueFrom(input, uniqueList) ==
    IF input = <<>> THEN uniqueList
    ELSE uniqueFrom(Tail(input),
                    IF InSeq(Head(input), uniqueList) THEN uniqueList
                    ELSE Append(uniqueList, Head(input)))

\* unique removes duplicate strings from a slice, keeping the first of each
unique(input) == uniqueFrom(input, <<>>)

\* findImages: html is given as the sequence of captures of the site's ImgRE
findImages(html, site) ==
    IF site \notin DOMAIN siteInfoMap THEN <<>>
    ELSE unique([k \in 1..Len(html) |->
                    IF site = "4chan" THEN Replace4cdn(html[k]) ELSE html[k]])

\* nameImg := parts[len(parts)-1] of strings.Split(link, "/")
nameImg(link) == link[Len(link)]

Sites == DOMAIN siteInfoMap

AllNames == UNION {{nameImg(Thread(s)[k]) : k \in 1..Len(Thread(s))} : s \in Sites}

Hosts == {siteInfoMap[s] : s \in Sites} \cup {"example.com"}

\* os.Args[2:]: absent, "-monitor" with a non-number, "-monitor" with a number
MonitorArgs ==
    {[flag |-> "none", num |-> 0], [flag |-> "bad", num |-> 0]} \cup
    {[flag |-> "num", num |-> n] : n \in 0..MaxSeconds}

-----------------------------------------------------------------------------
(* The versions with the .jpg default: src/unnamed/part_000 and src/4cget.go. *)
(* A URL or file name is the sequence of its pieces around the extensions,    *)
(* so "http://i.4cdn.org/g/123.jpg" is <<"http://i.4cdn.org/g/123", ".jpg">>. *)

\* linkImg and nameImg as main builds them for one thumbnail
OldUrl == <<"http://i.4cdn.org/g/123", ".jpg">>
OldName == <<"123", ".jpg">>

\* the extension list with two entries swapped
extListSwapped == <<".webm", ".png", ".gif">>

\* src/4cget.go line 38: extList
extList == <<".png", ".webm", ".gif">>

\* part_000 lines 30-39: the extensions the nested ifs replace, in their order
nestedExts == <<".jpg", ".png", ".webm", ".gif">>

\* strings.Replace(s, from, to, 1) on pieces
ReplaceFirst(s, from, to) ==
    IF \E k \in 1..Len(s) : s[k] = from
    THEN LET k == CHOOSE j \in 1..Len(s) : s[j] = from /\ \A h \in 1..(j - 1) : s[h] # from
         IN [s EXCEPT ![k] = to]
    ELSE s

\* strings.Split(s, sep)[0] on pieces
SplitFirst(s, sep) ==
    IF \E k \in 1..Len(s) : s[k] = sep
    THEN LET k == CHOOSE j \in 1..Len(s) : s[j] = sep /\ \A h \in 1..(j - 1) : s[h] # sep
         IN SubSeq(s, 1, k - 1)
    ELSE s

OldVersions == {"part_000", "4cget.go"}

\* what the server answers for each extension: a status, or no response at all
OldServers == [{".jpg", ".png", ".webm", ".gif"} -> {200, 404, 500, NilResp}]

\* the thread directory before the goroutine starts: empty, or one file of an
\* earlier cycle
OldDisks == {{}} \cup {{<<"123", e>>} : e \in {".jpg", ".png", ".webm", ".gif"}}

\* no such goroutine
OldIdle ==
    [ver |-> "none", srv |-> [e \in {".jpg", ".png", ".webm", ".gif"} |-> 200],
     monitorMode |-> FALSE, disk |-> {}, pc |-> "off", url |-> OldUrl,
     fileName |-> OldName, urldext |-> <<>>, resp |-> NilResp, k |-> 1,
     asked |-> <<>>, wrote |-> <<>>]

-----------------------------------------------------------------------------
(* The state after the process has started, before main runs *)

Init ==
    /\ args \in {[host |-> h, monitor |-> m] : h \in Hosts, m \in MonitorArgs}
    /\ pc = "start"
    /\ crash = "none"
    /\ siteID = ""
    /\ mainMonitorMode = FALSE
    /\ monitorMode = FALSE
    /\ secondsIteration = 0
    /\ body \in Pages(MatchSite(args.host))
    /\ links = <<>>
    /\ next = 1
    /\ wg = 0
    /\ files = 0
    /\ i = 0
    /\ disk = [n \in AllNames |-> "absent"]
    /\ workers = {}
    /\ cycle = 0
    /\ shown = <<>>
    /\ report = -1
    /\ downloaded = 0
    /\ prevAll = FALSE
    /\ folderCreated = FALSE
    /\ old = OldIdle

Running == crash = "none"

-----------------------------------------------------------------------------
(* main *)

\* lines 171-177: monitor mode is selected by "-monitor <number>"
MonitorSelected(a) == a.monitor.flag = "num"

\* lines 157-238: argument parsing, site matching, directory creation.  The
\* assignment of line 175 is to the monitorMode declared in line 161.
Startup ==
    /\ Running /\ pc = "start"
    /\ UNCHANGED old
    /\ mainMonitorMode' = MonitorSelected(args)
    /\ secondsIteration' = IF MonitorSelected(args) THEN args.monitor.num ELSE 0
    /\ siteID' = MatchSite(args.host)
    /\ pc' = IF MatchSite(args.host) = "" THEN "exit" ELSE "fetch"
    /\ folderCreated' = (MatchSite(args.host) # "")
    /\ UNCHANGED <<args, crash, monitorMode, body, links, next, wg, files, i, disk,
                   workers, cycle, shown, report, downloaded, prevAll>>

\* the goroutines of the cycle that has ended, all with "File downloaded" printed
AllDownloaded ==
    /\ workers # {}
    /\ \A w \in workers : w.pc = "done" /\ w.outcome = "Downloaded"

\* lines 241-244: the page fetch and findImages.  got is what io.ReadAll returns:
\* the page, or nothing of it when the status is not 200 or the read fails.
FetchPage ==
    /\ Running /\ pc = "fetch" /\ cycle < MaxCycles
    /\ UNCHANGED <<old, folderCreated>>
    /\ \E got \in {body, <<>>} :
          /\ links' = findImages(got, siteID)
          /\ pc' = IF findImages(got, siteID) = <<>> THEN "wait" ELSE "dispatch"
    /\ next' = 1
    /\ cycle' = cycle + 1
    /\ prevAll' = AllDownloaded
    /\ workers' = {w \in workers : w.pc # "done"}
    /\ UNCHANGED <<args, crash, siteID, mainMonitorMode, monitorMode, secondsIteration,
                   body, wg, files, i, disk, shown, report, downloaded>>

\* lines 241-242: http.Get fails, resp is nil and resp.Body panics
FetchPagePanic ==
    /\ Running /\ pc = "fetch" /\ cycle < MaxCycles
    /\ UNCHANGED <<old, folderCreated>>
    /\ crash' = "page"
    /\ pc' = "panicked"
    /\ cycle' = cycle + 1
    /\ UNCHANGED <<args, siteID, mainMonitorMode, monitorMode, secondsIteration,
                   body, links, next, wg, files, i, disk, workers, shown,
                   report, downloaded, prevAll, folderCreated>>

\* the goroutine started by line 248
NewWorker(link, k) ==
    [cycle |-> cycle, idx |-> k, url |-> link, fileName |-> nameImg(link),
     pc |-> "begin", i |-> 0, resp |-> NilResp,
     \* observations: requests issued, whether one of them failed in transport,
     \* whether os.Create opened the file, what the goroutine ended with, and
     \* whether the file was there when the goroutine was started
     reqs |-> 0, errs |-> FALSE, opened |-> FALSE, outcome |-> "none",
     existed |-> disk[nameImg(link)] # "absent"]

\* an increment that is lost
FilesUpdateLost == files

\* line 249: files++ in the dispatch loop
FilesAfterDispatch == files + 1

\* lines 244-250: one iteration of the range loop
Dispatch ==
    /\ Running /\ pc = "dispatch" /\ next <= Len(links)
    /\ UNCHANGED <<old, folderCreated>>
    /\ wg' = wg + 1
    /\ workers' = workers \cup {NewWorker(links[next], next)}
    /\ files' = FilesAfterDispatch
    /\ next' = next + 1
    /\ pc' = IF next + 1 > Len(links) THEN "wait" ELSE "dispatch"
    /\ UNCHANGED <<args, crash, siteID, mainMonitorMode, monitorMode, secondsIteration,
                   body, links, i, disk, cycle, shown, report, downloaded, prevAll>>

\* wg.Wait() left out: main goes on at once
WaitReturnsAtOnce == TRUE

\* line 251: wg.Wait() returns when the counter is zero
WaitReturns == wg = 0

\* the countdown stopping one early: i > 0
CountdownStopsEarly(v) == v > 0

\* line 255: the loop goes on while i >= 0
CountdownGoesOn(v) == v >= 0

\* lines 251-255, 264: the join, then the final report or the start of the countdown
Join ==
    /\ Running /\ pc = "wait" /\ WaitReturns
    /\ UNCHANGED <<old, folderCreated>>
    /\ IF ~mainMonitorMode
       THEN /\ pc' = "done"
            /\ report' = files
            /\ UNCHANGED <<i, shown>>
       ELSE /\ i' = secondsIteration
            /\ shown' = <<>>
            /\ pc' = IF CountdownGoesOn(secondsIteration) THEN "countdown" ELSE "fetch"
            /\ UNCHANGED report
    /\ UNCHANGED <<args, crash, siteID, mainMonitorMode, monitorMode, secondsIteration,
                   body, links, next, wg, files, disk, workers, cycle,
                   downloaded, prevAll>>

\* lines 255-260: print i, sleep one second, i--
Countdown ==
    /\ Running /\ pc = "countdown"
    /\ UNCHANGED <<old, folderCreated>>
    /\ shown' = Append(shown, i)
    /\ i' = i - 1
    /\ pc' = IF CountdownGoesOn(i - 1) THEN "countdown" ELSE "fetch"
    /\ UNCHANGED <<args, crash, siteID, mainMonitorMode, monitorMode, secondsIteration,
                   body, links, next, wg, files, disk, workers, cycle, report,
                   downloaded, prevAll>>

-----------------------------------------------------------------------------
(* downloadFile: one goroutine per dispatched link *)

Wid(w) == <<w.cycle, w.idx>>

\* environment: requests for an unreliable link, and the disk operations of its
\* download, may fail; every other download meets a 200 and a working disk
MayFault(w) == w.url \in Unreliable

\* fileExists gone wrong: the file is never found
fileExistsNever(name) == FALSE

\* a fileExists that takes a truncated file for a missing one
fileExistsWhenComplete(name) == disk[name] = "complete"

\* lines 146-155: fileExists, for a path that os.Stat can read
fileExists(name) == disk[name] # "absent"

\* the loop condition off by one: i <= RetryAttempts
LoopGoesOnOneMore(n) == n <= RetryAttempts

\* line 97: for i < GlobalConfig.RetryAttempts
LoopGoesOn(n) == n < RetryAttempts

\* the retry test gone wrong: every status but 200 is tried again
RetriedUnlessOk(status) == status # 200

\* line 106: a 404 or a 429 is tried again
Retried(status) == status = 404 \/ status = 429

\* line 116: the status that lets the download go on
Success(status) == status = 200

\* line 122: os.IsNotExist(err) || !monitorMode
WriteGuard(name) == disk[name] = "absent" \/ ~monitorMode

\* line 87, defer wg.Done(): what a return does to the WaitGroup counter
AfterDone(n) == n - 1

\* lines 116-119, reached when the loop is left: a nil resp panics, a status
\* other than 200 prints "Failed to download" and returns
AfterLoop(w) ==
    IF w.resp = NilResp THEN [w EXCEPT !.pc = "panicked"]
    ELSE IF ~Success(w.resp) THEN [w EXCEPT !.pc = "done", !.outcome = "Failed"]
    ELSE [w EXCEPT !.pc = "create?"]

\* line 97: the loop condition, evaluated on entry and after each i++
LoopHead(w) == IF LoopGoesOn(w.i) THEN [w EXCEPT !.pc = "loop"] ELSE AfterLoop(w)

\* an iteration that goes to another extension after a 404, as the versions
\* with the .jpg default do
AfterGetWithFallback(w, r) ==
    LET got == [w EXCEPT !.resp = r, !.reqs = @ + 1, !.errs = @ \/ r = NilResp,
                         !.url = IF r = 404 THEN [@ EXCEPT ![Len(@)] = "2.png"] ELSE @,
                         !.fileName = IF r = 404 THEN "2.png" ELSE @] IN
    IF r # NilResp /\ ~Retried(r)
    THEN AfterLoop(got)
    ELSE LoopHead([got EXCEPT !.i = @ + 1])

\* lines 98-114: one iteration of the retry loop, r being what http.Get returned
AfterGet(w, r) ==
    LET got == [w EXCEPT !.resp = r, !.reqs = @ + 1, !.errs = @ \/ r = NilResp] IN
    IF r # NilResp /\ ~Retried(r)
    THEN AfterLoop(got)
    ELSE LoopHead([got EXCEPT !.i = @ + 1])

\* the goroutine w goes on as w2; a return runs the deferred wg.Done()
Becomes(w, w2) ==
    /\ workers' = (workers \ {w}) \cup {w2}
    /\ wg' = IF w2.pc = "done" THEN AfterDone(wg) ELSE wg

\* lines 89-97: the file is there already, or the retry loop is entered
Begin(w) ==
    /\ Running /\ w.pc = "begin"
    /\ UNCHANGED <<old, folderCreated>>
    /\ IF fileExists(w.fileName)
       THEN /\ Becomes(w, [w EXCEPT !.pc = "done", !.outcome = "Skipped"])
            /\ UNCHANGED crash
       ELSE /\ Becomes(w, LoopHead(w))
            /\ crash' = IF LoopHead(w).pc = "panicked" THEN "nilresp" ELSE crash
    /\ UNCHANGED <<args, pc, siteID, mainMonitorMode, monitorMode,
                   secondsIteration, body, links, next, files, i, disk, cycle,
                   shown, report, downloaded, prevAll>>

\* lines 147-152: os.Stat fails for another reason than a missing file
BeginPanic(w) ==
    /\ Running /\ w.pc = "begin" /\ MayFault(w)
    /\ UNCHANGED <<old, folderCreated>>
    /\ workers' = (workers \ {w}) \cup {[w EXCEPT !.pc = "panicked"]}
    /\ crash' = "stat"
    /\ UNCHANGED <<args, pc, siteID, mainMonitorMode, monitorMode, secondsIteration,
                   body, links, next, wg, files, i, disk, cycle, shown, report,
                   downloaded, prevAll>>

\* lines 97-119: one request, and what follows from its result
Attempt(w) ==
    /\ Running /\ w.pc = "loop"
    /\ UNCHANGED <<old, folderCreated>>
    /\ \E r \in (IF MayFault(w) THEN Statuses \cup {NilResp} ELSE {200}) :
          /\ Becomes(w, AfterGet(w, r))
          /\ crash' = IF AfterGet(w, r).pc = "panicked" THEN "nilresp" ELSE crash
    /\ UNCHANGED <<args, pc, siteID, mainMonitorMode, monitorMode, secondsIteration,
                   body, links, next, files, i, disk, cycle, shown, report,
                   downloaded, prevAll>>

\* lines 121-122: the second existence check
Stat(w) ==
    /\ Running /\ w.pc = "create?"
    /\ UNCHANGED <<old, folderCreated>>
    /\ IF WriteGuard(w.fileName)
       THEN Becomes(w, [w EXCEPT !.pc = "create"])
       ELSE Becomes(w, [w EXCEPT !.pc = "done", !.outcome = "NotWritten"])
    /\ UNCHANGED <<args, pc, crash, siteID, mainMonitorMode, monitorMode,
                   secondsIteration, body, links, next, files, i, disk, cycle,
                   shown, report, downloaded, prevAll>>

\* lines 123-128: os.Create makes the file, or empties the one that is there
Create(w) ==
    /\ Running /\ w.pc = "create"
    /\ UNCHANGED <<old, folderCreated>>
    /\ \/ /\ disk' = [disk EXCEPT ![w.fileName] = "partial"]
          /\ Becomes(w, [w EXCEPT !.pc = "copy", !.opened = TRUE])
       \/ /\ MayFault(w)
          /\ Becomes(w, [w EXCEPT !.pc = "done", !.outcome = "Failed"])
          /\ UNCHANGED disk
    /\ UNCHANGED <<args, pc, crash, siteID, mainMonitorMode, monitorMode,
                   secondsIteration, body, links, next, files, i, cycle, shown, report,
                   downloaded, prevAll>>

\* lines 130-143: io.Copy and the "File downloaded" line
Copy(w) ==
    /\ Running /\ w.pc = "copy"
    /\ UNCHANGED <<old, folderCreated>>
    /\ \/ /\ disk' = [disk EXCEPT ![w.fileName] = "complete"]
          /\ Becomes(w, [w EXCEPT !.pc = "done", !.outcome = "Downloaded"])
          /\ downloaded' = downloaded + 1
          /\ UNCHANGED crash
       \/ /\ MayFault(w)
          /\ Becomes(w, [w EXCEPT !.pc = "done", !.outcome = "Failed"])
          /\ UNCHANGED <<disk, downloaded, crash>>
    /\ UNCHANGED <<args, pc, siteID, mainMonitorMode, monitorMode, secondsIteration,
                   body, links, next, files, i, cycle, shown, report, prevAll>>

\* lines 130, 138-140: an empty body is copied (b = 0), math.Log(0) is -Inf and
\* suffixes[int(-Inf)] is out of range
CopyPanic(w) ==
    /\ Running /\ w.pc = "copy" /\ MayFault(w)
    /\ UNCHANGED <<old, folderCreated>>
    /\ disk' = [disk EXCEPT ![w.fileName] = "complete"]
    /\ workers' = (workers \ {w}) \cup {[w EXCEPT !.pc = "panicked"]}
    /\ crash' = "size"
    /\ UNCHANGED <<args, pc, siteID, mainMonitorMode, monitorMode, secondsIteration,
                   body, links, next, wg, files, i, cycle, shown, report, downloaded,
                   prevAll>>

-----------------------------------------------------------------------------

Next ==
    \/ Startup
    \/ FetchPage
    \/ FetchPagePanic
    \/ Dispatch
    \/ Join
    \/ Countdown
    \/ \E w \in workers : Begin(w)
    \/ \E w \in workers : BeginPanic(w)
    \/ \E w \in workers : Attempt(w)
    \/ \E w \in workers : Stat(w)
    \/ \E w \in workers : Create(w)
    \/ \E w \in workers : Copy(w)
    \/ \E w \in workers : CopyPanic(w)

Spec == Init /\ [][Next]_vars

-----------------------------------------------------------------------------
(* downloadFile of the versions with the .jpg default *)

mainVars == <<args, pc, crash, siteID, mainMonitorMode, monitorMode, secondsIteration,
              body, links, next, wg, files, i, disk, workers, cycle, shown,
              report, downloaded, prevAll, folderCreated>>

\* one goroutine, started by main for one thumbnail; monitorMode is the
\* package-level flag of src/4cget.go (part_000 has none and always writes)
InitOld ==
    /\ args = [host |-> "boards.4chan.org", monitor |-> [flag |-> "none", num |-> 0]]
    /\ pc = "off"
    /\ crash = "none"
    /\ siteID = ""
    /\ mainMonitorMode = FALSE
    /\ monitorMode = FALSE
    /\ secondsIteration = 0
    /\ body = <<>>
    /\ links = <<>>
    /\ next = 1
    /\ wg = 0
    /\ files = 0
    /\ i = 0
    /\ disk = [n \in AllNames |-> "absent"]
    /\ workers = {}
    /\ cycle = 0
    /\ shown = <<>>
    /\ report = -1
    /\ downloaded = 0
    /\ prevAll = FALSE
    /\ folderCreated = TRUE
    /\ \E v \in OldVersions, sv \in OldServers, m \in BOOLEAN, d \in OldDisks :
          /\ (v = "part_000" => ~m)
          /\ old = [OldIdle EXCEPT !.ver = v, !.srv = sv, !.monitorMode = m,
                                   !.disk = d, !.pc = "get"]

\* http.Get(u): the answer depends on the extension asked for
OldAnswer(u) == old.srv[u[Len(u)]]

\* part_000 lines 28-29, 4cget.go lines 33-36: the first request.  A nil resp
\* panics at resp.StatusCode (part_000) or at the deferred resp.Body (4cget.go).
OldGet ==
    /\ old.pc = "get"
    /\ LET r == OldAnswer(old.url)
           o == [old EXCEPT !.resp = r, !.asked = Append(@, old.url)]
       IN  old' = IF r = NilResp THEN [o EXCEPT !.pc = "panicked"]
                  ELSE IF r # 404 THEN [o EXCEPT !.pc = "write"]
                  ELSE IF old.ver = "part_000" THEN [o EXCEPT !.pc = "nested"]
                  ELSE [o EXCEPT !.pc = "range", !.k = 1,
                                 !.urldext = SplitFirst(old.url, ".jpg")]
    /\ UNCHANGED mainVars

\* part_000 lines 29-42: the nested ifs; each replaces the extension in url
\* and fileName by the next one and asks again
OldNested ==
    /\ old.pc = "nested"
    /\ LET u == ReplaceFirst(old.url, nestedExts[old.k], nestedExts[old.k + 1])
           f == ReplaceFirst(old.fileName, nestedExts[old.k], nestedExts[old.k + 1])
           r == OldAnswer(u)
           o == [old EXCEPT !.url = u, !.fileName = f, !.resp = r,
                            !.asked = Append(@, u), !.k = @ + 1]
       IN  old' = IF r = NilResp THEN [o EXCEPT !.pc = "panicked"]
                  ELSE IF r = 404 /\ old.k + 1 < Len(nestedExts)
                       THEN o
                       ELSE [o EXCEPT !.pc = "write"]
    /\ UNCHANGED mainVars

\* 4cget.go lines 39-45: one iteration of the range over extList
OldRange ==
    /\ old.pc = "range"
    /\ LET ext == extList[old.k]
           u == Append(old.urldext, ext)
           r == OldAnswer(u)
           o == [old EXCEPT !.resp = r, !.asked = Append(@, u)]
       IN  old' = IF r = NilResp THEN [o EXCEPT !.pc = "panicked"]
                  ELSE IF r # 404
                       THEN [o EXCEPT !.fileName = ReplaceFirst(@, ".jpg", ext),
                                      !.pc = "write"]
                       ELSE IF old.k < Len(extList)
                            THEN [o EXCEPT !.k = @ + 1]
                            ELSE [o EXCEPT !.pc = "write"]
    /\ UNCHANGED mainVars

\* part_000 lines 46-54, 4cget.go lines 48-69: the file is written unless the
\* last answer was a 404 or, in 4cget.go, monitor mode finds the file there.
\* 4cget.go indexes suffixes by the logarithm of the size after the copy, which
\* panics for an empty body.
OldWrite ==
    /\ old.pc = "write"
    /\ \E b \in {0, 1} :
          old' = IF old.resp # 404 /\
                    (old.ver = "part_000" \/ old.fileName \notin old.disk \/ ~old.monitorMode)
                 THEN [old EXCEPT !.pc = IF old.ver = "4cget.go" /\ b = 0
                                         THEN "panicked" ELSE "done",
                                  !.wrote = old.fileName,
                                  !.disk = @ \cup {old.fileName}]
                 ELSE [old EXCEPT !.pc = "done"]
    /\ UNCHANGED mainVars

NextOld ==
    \/ OldGet
    \/ OldNested
    \/ OldRange
    \/ OldWrite

SpecOld == InitOld /\ [][NextOld]_vars

-----------------------------------------------------------------------------
(* Properties *)

\* main is past the join of a cycle
PastJoin == pc \in {"countdown", "fetch", "done"} /\ cycle >= 1

\* the goroutine has left the retry loop (or never entered it)
LeftLoop(w) == w.pc \notin {"begin", "loop"}

\* C1: a goroutine started for a file that is already in the thread directory
\* issues no request and never opens the file, and when it returns it has skipped
\* the file; so the cycle that follows a cycle in which every goroutine downloaded
\* its file (the page being the same) downloads nothing and opens nothing.
C1_ExistingFileIsSkipped ==
    /\ \A w \in workers :
          w.existed =>
             /\ w.reqs = 0
             /\ ~w.opened
             /\ w.pc \in {"begin", "done", "panicked"}
             /\ (w.pc = "done" => w.outcome = "Skipped")
    /\ prevAll =>
          \A w \in workers :
             w.existed /\ w.outcome \in {"none", "Skipped"} /\ ~w.opened

C1_Witness ==
    /\ cycle = 2 /\ prevAll /\ pc = "countdown"
    /\ Cardinality(workers) >= 2
    /\ \A w \in workers : w.pc = "done" /\ w.outcome = "Skipped" /\ w.reqs = 0

\* C2: a goroutine all of whose requests were answered 404 or 429 ends with
\* "Failed to download", has not opened a file, and has issued exactly
\* RetryAttempts requests; no goroutine ever issues more.
C2_RetryBudgetIsExact ==
    \A w \in workers :
       /\ w.reqs <= RetryAttempts
       /\ (LeftLoop(w) /\ ~w.errs /\ w.resp # NilResp /\ Retried(w.resp)) =>
             /\ w.pc = "done" /\ w.outcome = "Failed"
             /\ ~w.opened
             /\ w.reqs = RetryAttempts

C2_Witness ==
    \E w \in workers :
       /\ w.pc = "done" /\ w.outcome = "Failed" /\ ~w.errs
       /\ w.resp \in {404, 429} /\ w.reqs = RetryAttempts
       /\ disk[w.fileName] = "absent"

\* C3 (as claimed): a goroutine whose last request failed in transport, the
\* attempts being used up, returns with "Failed" and has written no file.
C3_TransportExhaustionFails ==
    \A w \in workers :
       (LeftLoop(w) /\ w.reqs > 0 /\ w.resp = NilResp) =>
          w.pc = "done" /\ w.outcome = "Failed" /\ ~w.opened

\* C4 (as claimed): the failure of one goroutine, here by transport errors on all
\* its attempts, leaves the process running, for the other goroutines and the join.
C4_FailureNeverAborts ==
    (\E w \in workers : w.reqs = RetryAttempts /\ w.errs /\ w.pc # "loop") =>
       crash = "none"

\* C5 (as claimed): a page fetch that fails in transport is taken as an empty
\* page, and the run goes on.
C5_PageFetchErrorTolerated == crash # "page"

\* C6: main leaves the join only when every goroutine of the cycle has returned,
\* each goroutine takes exactly one off the WaitGroup when it returns, and no
\* goroutine of an earlier cycle is alive in a later one.
C6_JoinIsABarrier ==
    /\ pc \in {"countdown", "fetch", "done"} => \A w \in workers : w.pc = "done"
    /\ wg = Cardinality({w \in workers : w.pc # "done"})
    /\ \A w \in workers : w.pc # "done" => w.cycle = cycle

C6_Witness ==
    /\ pc = "countdown" /\ cycle = 1
    /\ Cardinality(workers) = 3
    /\ \A w \in workers : w.pc = "done"
    /\ \E w \in workers : w.outcome = "Failed"
    /\ \E w \in workers : w.outcome = "Downloaded"

\* C7 (as claimed): past a join, files is the number of downloads made so far,
\* and so is the number of the final report.
C7_FilesCountsDownloads ==
    /\ PastJoin => files = downloaded
    /\ report # -1 => report = downloaded

\* C8 (as claimed): without monitor mode there is one page fetch and no
\* countdown; the run that ends with three links dispatched from an empty
\* directory, all three downloaded, leaves three files and reports 3.
C8_SinglePass ==
    ~MonitorSelected(args) =>
       /\ pc # "countdown" /\ shown = <<>> /\ cycle <= 1
       /\ pc = "done" => cycle = 1 /\ report = files
       /\ (/\ pc = "done"
           /\ Len(links) = 3
           /\ \A w \in workers : w.outcome = "Downloaded") =>
             /\ Cardinality({n \in AllNames : disk[n] = "complete"}) = 3
             /\ report = 3

\* C9: in monitor mode the countdown prints secondsIteration, ..., 1, 0 in this
\* order; the page is fetched again only when the 0 has been printed, and while
\* the countdown runs the fetch is not issued.
C9_CountdownBeforeFetch ==
    (mainMonitorMode /\ secondsIteration >= 0) =>
       /\ \A k \in 1..Len(shown) : shown[k] = secondsIteration - (k - 1)
       /\ pc = "countdown" => i = secondsIteration - Len(shown) /\ i >= 0
       /\ (PastJoin /\ pc = "fetch") =>
             Len(shown) = secondsIteration + 1 /\ shown[Len(shown)] = 0
       /\ (cycle >= 2 /\ ~PastJoin) =>
             Len(shown) = secondsIteration + 1 /\ shown[Len(shown)] = 0

C9_Witness ==
    /\ mainMonitorMode /\ secondsIteration = MaxSeconds
    /\ cycle = 2 /\ pc = "dispatch"
    /\ Len(shown) = MaxSeconds + 1 /\ shown[1] = MaxSeconds /\ shown[Len(shown)] = 0

\* C10: a response that is neither 404 nor 429 ends the retry loop, so that the
\* requests issued are the attempts counted plus this one; when its status is
\* not 200 the goroutine returns with "Failed" and has opened no file.
C10_TerminalStatusEndsLoop ==
    \A w \in workers :
       (w.resp # NilResp /\ w.resp \notin {404, 429}) =>
          /\ w.pc # "loop"
          /\ w.reqs = w.i + 1
          /\ w.resp # 200 => w.pc = "done" /\ w.outcome = "Failed" /\ ~w.opened

C10_Witness ==
    \E w \in workers :
       /\ w.resp = 500 /\ w.i >= 1 /\ w.reqs = w.i + 1
       /\ w.pc = "done" /\ w.outcome = "Failed"
       /\ disk[w.fileName] = "absent"

\* the order of the candidates that C11 states
Candidates == <<".jpg", ".png", ".webm", ".gif">>

\* the first candidate the server does not answer with a 404; 0 when there is none
FirstFound(srv) ==
    IF \E k \in 1..Len(Candidates) : srv[Candidates[k]] # 404
    THEN CHOOSE k \in 1..Len(Candidates) :
            srv[Candidates[k]] # 404 /\ \A h \in 1..(k - 1) : srv[Candidates[h]] = 404
    ELSE 0

FirstIdx(s, x) == CHOOSE k \in 1..Len(s) : s[k] = x /\ \A h \in 1..(k - 1) : s[h] # x

\* the matches of the page, transformed as findImages transforms them
Transformed ==
    [k \in 1..Len(body) |-> IF siteID = "4chan" THEN Replace4cdn(body[k]) ELSE body[k]]

\* C12: what findImages returned for the page of this run (or for the empty
\* content of a failed read) holds every transformed match exactly once, in
\* the order of first occurrence; a page without a match gives the empty
\* sequence and a link that occurs twice gives one entry.
C12_FindImagesFirstSeen ==
    /\ body = <<>> => links = <<>>
    /\ \/ links = <<>>
       \/ /\ \A a, b \in 1..Len(links) : a # b => links[a] # links[b]
          /\ {links[k] : k \in 1..Len(links)} = {Transformed[k] : k \in 1..Len(body)}
          /\ \A a, b \in 1..Len(links) :
                a < b => FirstIdx(Transformed, links[a]) < FirstIdx(Transformed, links[b])
          /\ \A k \in 1..Len(body) :
                Cardinality({a \in 1..Len(links) : links[a] = Transformed[k]}) = 1

C12_Witness ==
    /\ Len(body) = 3 /\ body[1] = body[2] /\ body[3] # body[1]
    /\ links = <<Transformed[1], Transformed[3]>>

\* C13: a host that matches no entry of siteInfoMap ends the run at the
\* "Unsupported site" exit with nothing done: no directory, no page fetch, no
\* goroutine, no file, no report.
C13_UnsupportedSiteDoesNothing ==
    ((\A s \in DOMAIN siteInfoMap : siteInfoMap[s] # args.host) /\ pc # "start") =>
        /\ pc = "exit" /\ crash = "none"
        /\ ~folderCreated
        /\ cycle = 0 /\ links = <<>>
        /\ workers = {} /\ wg = 0 /\ files = 0
        /\ \A n \in AllNames : disk[n] = "absent"
        /\ report = -1

C13_Witness ==
    /\ args.host = "example.com" /\ pc = "exit" /\ ~folderCreated /\ cycle = 0

\* C14 (as claimed): two goroutines of one cycle, started for different
\* links, never have the same destination file name, and so never both
\* create the same file.
C14_DistinctDestinations ==
    \A w1, w2 \in workers :
        (w1.cycle = w2.cycle /\ w1.idx # w2.idx) =>
            /\ w1.url # w2.url
            /\ w1.fileName # w2.fileName
            /\ ~(w1.opened /\ w2.opened /\ w1.fileName = w2.fileName)

\* C15: a goroutine keeps the URL and the file name it was started with, the
\* link of its index and that link's last path segment, through every attempt,
\* also after a 404.
C15_NoExtensionFallback ==
    \A w \in workers :
        /\ w.idx \in 1..Len(links)
        /\ w.url = links[w.idx]
        /\ w.fileName = nameImg(links[w.idx])

C15_Witness ==
    \E w \in workers :
        /\ w.resp = 404 /\ w.reqs >= 2 /\ w.pc = "loop"
        /\ w.url = links[w.idx] /\ w.fileName = nameImg(links[w.idx])

\* the file has been opened by a goroutine of the running cycle
OpenedNow(name) == \E v \in workers : v.fileName = name /\ v.opened

\* C16: a goroutine that fails after it has opened its file leaves the file
\* in the directory (truncated, unless another goroutine completes it); a
\* goroutine of a later cycle that meets a truncated file left by an earlier
\* cycle issues no request, does not open the file and returns as skipped,
\* and the file stays truncated.
C16_TruncatedFileIsKept ==
    /\ \A w \in workers :
          (w.pc = "done" /\ w.outcome = "Failed" /\ w.opened) =>
              /\ disk[w.fileName] # "absent"
              /\ (\A v \in workers : v.fileName = w.fileName => v = w) =>
                    disk[w.fileName] = "partial"
    /\ \A w \in workers :
          (disk[w.fileName] = "partial" /\ ~OpenedNow(w.fileName)) =>
              /\ w.cycle >= 2 /\ w.existed
              /\ w.reqs = 0
              /\ w.pc \in {"begin", "done", "panicked"}
              /\ (w.pc = "done" => w.outcome = "Skipped")

C16_Witness ==
    \E w \in workers :
        /\ w.cycle = 2 /\ w.pc = "done" /\ w.outcome = "Skipped"
        /\ disk[w.fileName] = "partial" /\ ~OpenedNow(w.fileName)

C18_GuardReadsSelectedMode ==
    pc # "start" => monitorMode = mainMonitorMode

\* C19 (as claimed): without monitor mode, on a supported site whose page has
\* been fetched, whatever statuses and transport errors the requests of the
\* goroutines meet, no goroutine issues more than RetryAttempts requests and
\* the run can stop only when main has printed the final report: every state
\* in which no step is possible is the state after the report, with every
\* goroutine returned.
C19_SinglePassEndsWithReport ==
    (/\ ~MonitorSelected(args)
     /\ \E s \in DOMAIN siteInfoMap : siteInfoMap[s] = args.host
     /\ crash \in {"none", "nilresp"}) =>
        /\ \A w \in workers : w.reqs <= RetryAttempts
        /\ \/ ENABLED Next
           \/ /\ pc = "done" /\ report # -1
              /\ \A w \in workers : w.pc = "done"

====
